---------------------------- MODULE Spec2Model ----------------------------
(***************************************************************************)
(* Model of loop.py: EventLoopManager (platform detection, factory         *)
(* selection, setup, get_info) over the parts of asyncio it drives: the    *)
(* process-wide event loop policy, the policy's per-thread current loop,   *)
(* and the loops the factories create.                                     *)
(***************************************************************************)
EXTENDS Integers, Sequences, FiniteSets, TLC

\* ------------------------------------------------------------------ bounds
\* setup() calls started over one run
MaxSetups == 3

\* ------------------------------------------------------------- environment
\* what platform.system() can return on a host ("" when undetermined)
HostNames == {"Windows", "Linux", "Darwin", "FreeBSD", ""}

\* what the statement `import uvloop` does at a given moment: it succeeds,
\* raises ImportError (not installed, or an extension that does not load),
\* or raises another exception from the package's top-level code
UvloopStates == {"importable", "ImportError", "OtherError"}

\* sys.version_info[:2] of the interpreter
PyVersions == {<<3, 7>>, <<3, 8>>}

Threads == {"main", "worker"}

\* the absent loop: policy._local._loop is None
NoLoop == 0

\* no get_info() result yet
NoInfo == [system |-> "-", factory |-> "-", uvloop_available |-> FALSE,
           python_version |-> "-"]

VARIABLES
    host,        \* platform.system() of the host
    uvloop,      \* current outcome of `import uvloop`
    loopRes,     \* whether the OS can still give a new loop its descriptors
    pyver,       \* sys.version_info[:2]
    mstate,      \* "none" (not constructed), "ready", "failed" (__init__ raised)
    system,      \* self.system
    factory,     \* self.factory.__class__.__name__
    ctorProbe,   \* what the probe in _get_factory did: "none", "skipped", "ok",
                 \* "ImportError", "OtherError"
    events,      \* counts: imports by _get_factory, advisory lines, confirmation lines
    aio,         \* asyncio: the installed policy and its per-thread current loop
    loops,       \* the loops created so far, by id
    calls,       \* setup() calls started
    th,          \* each thread's position inside setup()
    returned,    \* the setup() calls that returned, in order of return
    lastSetup,   \* outcome of the setup() call that finished last
    firstInfo,   \* the first get_info() result
    lastInfo,    \* the latest get_info() result
    infoStatus   \* how the latest get_info() ended

vars == <<host, uvloop, loopRes, pyver, mstate, system, factory, ctorProbe,
          events, aio, loops, calls, th, returned, lastSetup, firstInfo,
          lastInfo, infoStatus>>

envVars == <<host, uvloop, loopRes, pyver>>
mgrVars == <<mstate, system, factory, ctorProbe>>
infoVars == <<firstInfo, lastInfo, infoStatus>>
setupVars == <<aio, loops, calls, th, returned, lastSetup>>

\* ----------------------------------------------------------------- helpers
\* str.lower() on the names platform.system() returns
Lower(s) ==
    CASE s = "Windows" -> "windows"
      [] s = "Linux" -> "linux"
      [] s = "Darwin" -> "darwin"
      [] s = "FreeBSD" -> "freebsd"
      [] OTHER -> s

\* tuple comparison sys.version_info >= (major, minor)
VersionGE(v, w) ==
    \/ v[1] > w[1]
    \/ v[1] = w[1] /\ v[2] >= w[2]

\* platform.python_version()
python_version(v) ==
    CASE v = <<3, 7>> -> "3.7"
      [] v = <<3, 8>> -> "3.8"
      [] OTHER -> "?"

\* _get_factory with the Windows test after the probe
Mut_get_factory_probe_first(sys, uv) ==
    IF uv = "OtherError"
    THEN [raised |-> TRUE, factory |-> "-", probe |-> uv, imports |-> 1, advisory |-> 0]
    ELSE IF sys = "windows"
    THEN [raised |-> FALSE, factory |-> "WindowsLoopFactory", probe |-> "ok",
          imports |-> 1, advisory |-> 0]
    ELSE IF uv = "importable"
    THEN [raised |-> FALSE, factory |-> "UvloopFactory", probe |-> "ok",
          imports |-> 1, advisory |-> 0]
    ELSE [raised |-> FALSE, factory |-> "DefaultLoopFactory", probe |-> "ImportError",
          imports |-> 1, advisory |-> 1]

\* _get_factory with the two probe branches exchanged
Mut_get_factory_swapped(sys, uv) ==
    IF sys = "windows"
    THEN [raised |-> FALSE, factory |-> "WindowsLoopFactory", probe |-> "skipped",
          imports |-> 0, advisory |-> 0]
    ELSE IF uv = "importable"
    THEN [raised |-> FALSE, factory |-> "DefaultLoopFactory", probe |-> "ok",
          imports |-> 1, advisory |-> 0]
    ELSE IF uv = "ImportError"
    THEN [raised |-> FALSE, factory |-> "UvloopFactory", probe |-> "ImportError",
          imports |-> 1, advisory |-> 1]
    ELSE [raised |-> TRUE, factory |-> "-", probe |-> "OtherError",
          imports |-> 1, advisory |-> 0]

\* _get_factory that never selects uvloop
Mut_get_factory_default_only(sys, uv) ==
    IF sys = "windows"
    THEN [raised |-> FALSE, factory |-> "WindowsLoopFactory", probe |-> "skipped",
          imports |-> 0, advisory |-> 0]
    ELSE IF uv = "importable"
    THEN [raised |-> FALSE, factory |-> "DefaultLoopFactory", probe |-> "ok",
          imports |-> 1, advisory |-> 0]
    ELSE IF uv = "ImportError"
    THEN [raised |-> FALSE, factory |-> "DefaultLoopFactory", probe |-> "ImportError",
          imports |-> 1, advisory |-> 1]
    ELSE [raised |-> TRUE, factory |-> "-", probe |-> "OtherError",
          imports |-> 1, advisory |-> 0]

\* EventLoopManager._get_factory: the factory chosen for self.system under the
\* current import outcome, with what the call did on the way (the import it
\* ran, the advisory line it printed) and whether it raised
_get_factory(sys, uv) ==
    IF sys = "windows"
    THEN [raised |-> FALSE, factory |-> "WindowsLoopFactory", probe |-> "skipped",
          imports |-> 0, advisory |-> 0]
    ELSE IF uv = "importable"
    THEN [raised |-> FALSE, factory |-> "UvloopFactory", probe |-> "ok",
          imports |-> 1, advisory |-> 0]
    ELSE IF uv = "ImportError"
    THEN [raised |-> FALSE, factory |-> "DefaultLoopFactory", probe |-> "ImportError",
          imports |-> 1, advisory |-> 1]
    ELSE [raised |-> TRUE, factory |-> "-", probe |-> "OtherError",
          imports |-> 1, advisory |-> 0]

\* ------------------------------------------------------------------- Init
Init ==
    /\ host \in HostNames
    /\ uvloop \in UvloopStates
    /\ loopRes \in BOOLEAN
    /\ pyver \in PyVersions
    /\ mstate = "none"
    /\ system = "-"
    /\ factory = "-"
    /\ ctorProbe = "none"
    /\ events = [imports |-> 0, advisories |-> 0, confirmations |-> 0]
    /\ aio = [policy |-> [kind |-> "DefaultEventLoopPolicy", owner |-> 0],
              local |-> [t \in Threads |-> NoLoop]]
    /\ loops = << >>
    /\ calls = 0
    /\ th = [t \in Threads |-> [pc |-> "idle", call |-> 0, loop |-> NoLoop]]
    /\ returned = << >>
    /\ lastSetup = [call |-> 0, status |-> "none", at |-> "-", loop |-> NoLoop]
    /\ firstInfo = NoInfo
    /\ lastInfo = NoInfo
    /\ infoStatus = "none"

\* EventLoopManager.__init__: self.system, then self.factory; an exception out
\* of _get_factory leaves no manager
EventLoopManager_init ==
    /\ mstate = "none"
    /\ LET sys == Lower(host)
           r == _get_factory(sys, uvloop)
       IN /\ ctorProbe' = r.probe
          /\ events' = [events EXCEPT !.imports = @ + r.imports,
                                      !.advisories = @ + r.advisory]
          /\ IF r.raised
             THEN /\ mstate' = "failed"
                  /\ UNCHANGED <<system, factory>>
             ELSE /\ mstate' = "ready"
                  /\ system' = sys
                  /\ factory' = r.factory
    /\ UNCHANGED <<envVars, setupVars, infoVars>>

\* ---------------------------------------------------------------- asyncio
\* the loop class policy.new_event_loop() instantiates
new_event_loop(policyKind) ==
    CASE policyKind = "uvloop.EventLoopPolicy" -> "uvloop.Loop"
      [] policyKind = "WindowsProactorEventLoopPolicy" -> "ProactorEventLoop"
      [] OTHER -> "DefaultEventLoop"

\* asyncio.set_event_loop_policy(policy): the new policy object replaces the
\* installed one; its thread-local current loops start unset
set_event_loop_policy(a, p) ==
    [policy |-> p, local |-> [t \in Threads |-> NoLoop]]

\* set_event_loop that drops the loop
Mut_set_event_loop_noop(a, t, l) ==
    a

\* asyncio.set_event_loop(loop): the installed policy records the loop as the
\* calling thread's current loop
set_event_loop(a, t, l) ==
    [a EXCEPT !.local[t] = l]

\* asyncio.get_event_loop() as the calling thread sees it after a set
get_event_loop(a, t) ==
    a.local[t]

\* --------------------------------------------------------------- factories
\* get_policy that falls back to the default policy when uvloop is gone
Mut_get_policy_fallback(fac, uv, ver) ==
    IF fac = "WindowsLoopFactory" /\ VersionGE(ver, <<3, 8>>)
    THEN [raised |-> FALSE, kind |-> "WindowsProactorEventLoopPolicy"]
    ELSE IF fac = "UvloopFactory" /\ uv = "importable"
    THEN [raised |-> FALSE, kind |-> "uvloop.EventLoopPolicy"]
    ELSE [raised |-> FALSE, kind |-> "DefaultEventLoopPolicy"]

\* LoopFactory.get_policy of the three factories
get_policy(fac, uv, ver) ==
    CASE fac = "UvloopFactory" ->
            IF uv = "importable"
            THEN [raised |-> FALSE, kind |-> "uvloop.EventLoopPolicy"]
            ELSE [raised |-> TRUE, kind |-> "-"]
      [] fac = "WindowsLoopFactory" ->
            IF VersionGE(ver, <<3, 8>>)
            THEN [raised |-> FALSE, kind |-> "WindowsProactorEventLoopPolicy"]
            ELSE [raised |-> FALSE, kind |-> "DefaultEventLoopPolicy"]
      [] OTHER -> [raised |-> FALSE, kind |-> "DefaultEventLoopPolicy"]

\* LoopFactory.create_loop of the three factories; creating a loop opens
\* descriptors, which fails when the OS has none left
create_loop(fac, uv, res, ver, installedKind) ==
    CASE fac = "UvloopFactory" ->
            IF uv = "importable" /\ res
            THEN [raised |-> FALSE, kind |-> "uvloop.Loop"]
            ELSE [raised |-> TRUE, kind |-> "-"]
      [] fac = "WindowsLoopFactory" ->
            IF ~res
            THEN [raised |-> TRUE, kind |-> "-"]
            ELSE IF VersionGE(ver, <<3, 8>>)
            THEN [raised |-> FALSE, kind |-> new_event_loop("WindowsProactorEventLoopPolicy")]
            ELSE [raised |-> FALSE, kind |-> new_event_loop(installedKind)]
      [] OTHER ->
            IF res
            THEN [raised |-> FALSE, kind |-> new_event_loop(installedKind)]
            ELSE [raised |-> TRUE, kind |-> "-"]

\* the identity of the object a create_loop call returns: a new one
NewLoop(ls) ==
    Len(ls) + 1

\* ------------------------------------------------------------------ setup
Idle ==
    \A t \in Threads : th[t].pc = "idle"

Raised(c, where) ==
    [call |-> c, status |-> "raised", at |-> where, loop |-> NoLoop]

\* EventLoopManager.setup called and run to its end on thread t with no other
\* thread inside setup
setup(t) ==
    /\ mstate = "ready"
    /\ calls < MaxSetups
    /\ Idle
    /\ LET c == calls + 1
           p == get_policy(factory, uvloop, pyver)
           a1 == set_event_loop_policy(aio, [kind |-> p.kind, owner |-> c])
           l == create_loop(factory, uvloop, loopRes, pyver, a1.policy.kind)
           id == NewLoop(loops)
           a2 == set_event_loop(a1, t, id)
       IN /\ calls' = c
          /\ IF p.raised
             THEN /\ lastSetup' = Raised(c, "get_policy")
                  /\ UNCHANGED <<aio, loops, returned, events>>
             ELSE IF l.raised
             THEN /\ aio' = a1
                  /\ lastSetup' = Raised(c, "create_loop")
                  /\ UNCHANGED <<loops, returned, events>>
             ELSE /\ aio' = a2
                  /\ loops' = Append(loops, [kind |-> l.kind, by |-> c, closedBy |-> "open"])
                  /\ returned' = Append(returned, [call |-> c, loop |-> id, thread |-> t])
                  /\ events' = [events EXCEPT !.confirmations = @ + 1]
                  /\ lastSetup' = [call |-> c, status |-> "returned", at |-> "-", loop |-> id]
    /\ UNCHANGED <<envVars, mgrVars, th, infoVars>>

\* --------------------------------------------------------------- get_info
\* EventLoopManager._is_uvloop_available
_is_uvloop_available(uv) ==
    CASE uv = "importable" -> [raised |-> FALSE, value |-> TRUE]
      [] uv = "ImportError" -> [raised |-> FALSE, value |-> FALSE]
      [] OTHER -> [raised |-> TRUE, value |-> FALSE]

\* get_info that detects again instead of reporting self.factory
Mut_get_info_redetect(sys, fac, uv, ver) ==
    [raised |-> _is_uvloop_available(uv).raised,
     info |-> [system |-> sys,
               factory |-> _get_factory(sys, uv).factory,
               uvloop_available |-> _is_uvloop_available(uv).value,
               python_version |-> python_version(ver)]]

\* EventLoopManager.get_info
get_info(sys, fac, uv, ver) ==
    [raised |-> _is_uvloop_available(uv).raised,
     info |-> [system |-> sys,
               factory |-> fac,
               uvloop_available |-> _is_uvloop_available(uv).value,
               python_version |-> python_version(ver)]]

\* a get_info() call that runs the detection again
Mut_GetInfo_redetect ==
    /\ mstate = "ready"
    /\ Idle
    /\ LET r == get_info(system, factory, uvloop, pyver)
           d == _get_factory(system, uvloop)
       IN /\ events' = [events EXCEPT !.imports = @ + d.imports,
                                      !.advisories = @ + d.advisory]
          /\ IF r.raised
             THEN /\ infoStatus' = "raised"
                  /\ UNCHANGED <<firstInfo, lastInfo>>
             ELSE /\ infoStatus' = "returned"
                  /\ lastInfo' = r.info
                  /\ firstInfo' = IF firstInfo = NoInfo THEN r.info ELSE firstInfo
    /\ UNCHANGED <<envVars, mgrVars, setupVars>>

\* a get_info() call by the caller
GetInfo ==
    /\ mstate = "ready"
    /\ Idle
    /\ LET r == get_info(system, factory, uvloop, pyver)
       IN IF r.raised
          THEN /\ infoStatus' = "raised"
               /\ UNCHANGED <<firstInfo, lastInfo>>
          ELSE /\ infoStatus' = "returned"
               /\ lastInfo' = r.info
               /\ firstInfo' = IF firstInfo = NoInfo THEN r.info ELSE firstInfo
    /\ UNCHANGED <<envVars, mgrVars, events, setupVars>>

\* ------------------------------------------------------ caller, environment
\* the caller closes a loop it was given (loop.close() in its finally block)
CloseLoop ==
    /\ Idle
    /\ \E l \in DOMAIN loops :
          /\ loops[l].closedBy = "open"
          /\ loops' = [loops EXCEPT ![l].closedBy = "caller"]
    /\ UNCHANGED <<envVars, mgrVars, events, aio, calls, th, returned, lastSetup, infoVars>>

\* uvloop gets installed, removed or broken while the process runs
UvloopChanges ==
    /\ uvloop' \in UvloopStates \ {uvloop}
    /\ UNCHANGED <<host, loopRes, pyver, mgrVars, events, setupVars, infoVars>>

\* descriptors run out or become available again
ResourcesChange ==
    /\ loopRes' = ~loopRes
    /\ UNCHANGED <<host, uvloop, pyver, mgrVars, events, setupVars, infoVars>>

Next ==
    \/ EventLoopManager_init
    \/ \E t \in Threads : setup(t)
    \/ GetInfo
    \/ CloseLoop
    \/ UvloopChanges
    \/ ResourcesChange

Spec == Init /\ [][Next]_vars

\* ------------------------------------------- setup, statement by statement
\* The same method with its four statements as separate steps of the calling
\* thread, so that two threads can be inside setup() at once.

\* policy = self.factory.get_policy(); asyncio.set_event_loop_policy(policy)
SetupInstallPolicy(t) ==
    /\ mstate = "ready"
    /\ calls < MaxSetups
    /\ th[t].pc = "idle"
    /\ LET c == calls + 1
           p == get_policy(factory, uvloop, pyver)
       IN /\ calls' = c
          /\ IF p.raised
             THEN /\ lastSetup' = Raised(c, "get_policy")
                  /\ UNCHANGED <<aio, th>>
             ELSE /\ aio' = set_event_loop_policy(aio, [kind |-> p.kind, owner |-> c])
                  /\ th' = [th EXCEPT ![t] = [pc |-> "create_loop", call |-> c, loop |-> NoLoop]]
                  /\ UNCHANGED lastSetup
    /\ UNCHANGED <<envVars, mgrVars, events, loops, returned, infoVars>>

\* loop = self.factory.create_loop()
SetupCreateLoop(t) ==
    /\ th[t].pc = "create_loop"
    /\ LET l == create_loop(factory, uvloop, loopRes, pyver, aio.policy.kind)
           id == NewLoop(loops)
       IN IF l.raised
          THEN /\ lastSetup' = Raised(th[t].call, "create_loop")
               /\ th' = [th EXCEPT ![t].pc = "idle"]
               /\ UNCHANGED loops
          ELSE /\ loops' = Append(loops, [kind |-> l.kind, by |-> th[t].call, closedBy |-> "open"])
               /\ th' = [th EXCEPT ![t].pc = "set_event_loop", ![t].loop = id]
               /\ UNCHANGED lastSetup
    /\ UNCHANGED <<envVars, mgrVars, events, aio, calls, returned, infoVars>>

\* asyncio.set_event_loop(loop)
SetupInstallLoop(t) ==
    /\ th[t].pc = "set_event_loop"
    /\ aio' = set_event_loop(aio, t, th[t].loop)
    /\ th' = [th EXCEPT ![t].pc = "return"]
    /\ UNCHANGED <<envVars, mgrVars, events, loops, calls, returned, lastSetup, infoVars>>

\* print(...); return loop
SetupReturn(t) ==
    /\ th[t].pc = "return"
    /\ events' = [events EXCEPT !.confirmations = @ + 1]
    /\ returned' = Append(returned, [call |-> th[t].call, loop |-> th[t].loop, thread |-> t])
    /\ lastSetup' = [call |-> th[t].call, status |-> "returned", at |-> "-", loop |-> th[t].loop]
    /\ th' = [th EXCEPT ![t].pc = "idle"]
    /\ UNCHANGED <<envVars, mgrVars, aio, loops, calls, infoVars>>

NextThreads ==
    \/ EventLoopManager_init
    \/ \E t \in Threads : SetupInstallPolicy(t)
    \/ \E t \in Threads : SetupCreateLoop(t)
    \/ \E t \in Threads : SetupInstallLoop(t)
    \/ \E t \in Threads : SetupReturn(t)
    \/ UvloopChanges
    \/ ResourcesChange

SpecThreads == Init /\ [][NextThreads]_vars

\* ------------------------------------------------------------------ claims
Constructed ==
    mstate # "none"

LastReturned ==
    returned[Len(returned)]

Installed ==
    {t \in Threads : aio.local[t] # NoLoop}

C2_WindowsNoProbe ==
    Constructed /\ Lower(host) = "windows" =>
        /\ mstate = "ready"
        /\ factory = "WindowsLoopFactory"
        /\ ctorProbe = "skipped"
        /\ events.imports = 0

C2_Witness ==
    /\ mstate = "ready"
    /\ system = "windows"
    /\ factory = "WindowsLoopFactory"
    /\ uvloop = "OtherError"
    /\ calls > 0

\* C3: every get_info() result carries the system and factory of the first
\* get_info() result, whatever setup() calls and changes of uvloop
\* availability came in between.
C3_InfoStable ==
    firstInfo # NoInfo =>
        /\ lastInfo.system = firstInfo.system
        /\ lastInfo.factory = firstInfo.factory

C3_Witness ==
    /\ firstInfo # NoInfo
    /\ lastInfo.uvloop_available # firstInfo.uvloop_available
    /\ Len(returned) > 0

\* C4: after every setup() call that returned, exactly one loop is registered
\* as current, it is the loop that call returned (get_event_loop() is loop),
\* that loop was returned by no earlier call, and a setup() call leaves every
\* loop created before it as it was (the replaced loop is not closed).
C4_SetupInstallsReturned ==
    /\ [](lastSetup.status = "returned" =>
            /\ Cardinality(Installed) = 1
            /\ get_event_loop(aio, LastReturned.thread) = LastReturned.loop
            /\ lastSetup.loop = LastReturned.loop
            /\ \A i \in 1..(Len(returned) - 1) : returned[i].loop # LastReturned.loop)
    /\ [][calls' = calls + 1 =>
            \A l \in DOMAIN loops : loops'[l] = loops[l]]_vars

C4_Witness ==
    /\ Len(returned) >= 2
    /\ lastSetup.status = "returned"
    /\ loops[returned[1].loop].closedBy = "open"
    /\ returned[1].thread # returned[2].thread

\* C5: on a non-Windows platform a probe that fails in any way leaves a
\* constructed manager with DefaultLoopFactory and one advisory line.
C5_ProbeFailureAbsorbed ==
    Constructed /\ Lower(host) # "windows" /\ ctorProbe \in {"ImportError", "OtherError"} =>
        /\ mstate = "ready"
        /\ factory = "DefaultLoopFactory"
        /\ events.advisories = 1

\* C6: a setup() call whose get_policy() or create_loop() raises ends with the
\* error raised to the caller at the statement that raised: it returns no loop,
\* leaves the selected factory as it was and runs no detection import; when
\* get_policy() raises, nothing is installed and create_loop() is not reached.
C6_SetupFailurePropagates ==
    [][(/\ calls' = calls + 1
        /\ \/ factory = "UvloopFactory" /\ uvloop # "importable"
           \/ ~loopRes)
       => /\ lastSetup'.status = "raised"
          /\ lastSetup'.call = calls'
          /\ returned' = returned
          /\ loops' = loops
          /\ factory' = factory
          /\ events' = events
          /\ (factory = "UvloopFactory" /\ uvloop # "importable"
                 => lastSetup'.at = "get_policy" /\ aio' = aio)
          /\ (~(factory = "UvloopFactory" /\ uvloop # "importable")
                 => lastSetup'.at = "create_loop")]_vars

C6_Witness ==
    /\ lastSetup.status = "raised"
    /\ lastSetup.at = "get_policy"
    /\ factory = "UvloopFactory"
    /\ uvloop = "ImportError"

\* C7: whenever no setup() call is running, the installed policy and the
\* current loop come from the same setup() call, or both are untouched.
C7_PolicyAndLoopCoupled ==
    Idle =>
        \/ aio.policy.owner = 0 /\ Installed = {}
        \/ \E t \in Installed : loops[aio.local[t]].by = aio.policy.owner

\* C8: the import that decides the backend runs at most once however many
\* setup() and get_info() calls follow, and a manager that fell back to
\* DefaultLoopFactory has printed the advisory line exactly once.
C8_DetectOnce ==
    /\ events.imports <= 1
    /\ (mstate = "ready" /\ factory = "DefaultLoopFactory" => events.advisories = 1)

C8_Witness ==
    /\ factory = "DefaultLoopFactory"
    /\ events.advisories = 1
    /\ calls >= 2
    /\ infoStatus = "returned"

\* C9 as stated: in every get_info() result, uvloop_available on a system other
\* than windows means factory UvloopFactory, and system windows means factory
\* WindowsLoopFactory.
C9_AvailableMeansUvloop ==
    lastInfo # NoInfo =>
        /\ (lastInfo.uvloop_available /\ lastInfo.system # "windows"
               => lastInfo.factory = "UvloopFactory")
        /\ (lastInfo.system = "windows" => lastInfo.factory = "WindowsLoopFactory")

\* C9 amended: in every get_info() result, uvloop_available on a system other
\* than windows means factory UvloopFactory provided the import of uvloop
\* succeeded when the manager was constructed, and system windows means
\* factory WindowsLoopFactory whatever uvloop_available reports.
C9_AvailableAtConstruction ==
    lastInfo # NoInfo =>
        /\ (lastInfo.uvloop_available /\ lastInfo.system # "windows" /\ ctorProbe = "ok"
               => lastInfo.factory = "UvloopFactory")
        /\ (lastInfo.system = "windows" => lastInfo.factory = "WindowsLoopFactory")

C9_Witness ==
    /\ lastInfo # NoInfo
    /\ lastInfo.uvloop_available
    /\ lastInfo.system = "linux"
    /\ ctorProbe = "ok"
    /\ firstInfo.uvloop_available = FALSE

\* C10: once the setup() calls of both threads have returned, exactly one loop
\* is registered as current, it is the loop of the call that returned last, and
\* the installed policy was installed by that same call.
C10_LastReturnWins ==
    Idle /\ Len(returned) >= 2 /\ lastSetup.status = "returned" =>
        /\ Cardinality(Installed) = 1
        /\ aio.local[LastReturned.thread] = LastReturned.loop
        /\ aio.policy.owner = LastReturned.call

=============================================================================
